---- MODULE Spec2Model ----
(***************************************************************************)
(* A model of SJR (src/SJR.h): the document node with its auto-vivifying   *)
(* accessors, the recursive-descent parser and the tree-walking writer.    *)
(*                                                                         *)
(* Characters are one-character strings; Ascii gives their codes where the *)
(* code compares or subtracts them.  A text is a sequence of characters.   *)
(* The parser is a step machine over a cursor (pos, 1-based: pos =         *)
(* Len(text)+1 is the terminating NUL of std::string::data()); the writer  *)
(* is a step machine over a stack of frames and the function-static        *)
(* tabsCount.  load and save as single calls run these machines to their   *)
(* end.                                                                    *)
(***************************************************************************)
EXTENDS Integers, Sequences, FiniteSets, TLC

VARIABLES
    pm,         \* the parse in progress: text, memory after it, cursor, call stack
    doc,        \* the caller's root node
    cur,        \* the reference the caller's expression holds: a path from doc
    opsLeft,    \* calls the caller may still make
    last,       \* the caller's last call and what it returned or threw
    loaded,     \* whether load has been called on the document
    savers,     \* the saves in progress, one per caller thread
    tabsCount   \* writeObject's function-static counter, shared by every save

vars == <<pm, doc, cur, opsLeft, last, loaded, savers, tabsCount>>

----------------------------------------------------------------------------
(* Bounds of the model *)

MaxLen == 4        \* characters (tokens) of a parsed input
MaxOverrun == 1    \* bytes of memory modelled after the terminating NUL
MaxOps == 3        \* calls on the document in one run
MaxIndex == 1      \* largest index given to operator[](size_t)
MaxDepth == 2      \* longest chain of operator[] in one expression
Fuel == 80         \* steps after which a single load or save counts as not returning

----------------------------------------------------------------------------
(* Characters *)

NUL == "\\0"
OOB == "<unmodelled>"

Ascii ==
    ("\t" :> 9) @@ ("\n" :> 10) @@ (" " :> 32) @@ ("\"" :> 34) @@ ("+" :> 43) @@
    ("," :> 44) @@ ("-" :> 45) @@ ("." :> 46) @@
    ("0" :> 48) @@ ("1" :> 49) @@ ("2" :> 50) @@ ("3" :> 51) @@ ("4" :> 52) @@
    ("5" :> 53) @@ ("6" :> 54) @@ ("7" :> 55) @@ ("8" :> 56) @@ ("9" :> 57) @@
    (":" :> 58) @@ ("E" :> 69) @@ ("[" :> 91) @@ ("]" :> 93) @@
    ("a" :> 97) @@ ("b" :> 98) @@ ("c" :> 99) @@ ("e" :> 101) @@ ("f" :> 102) @@ ("h" :> 104) @@
    ("i" :> 105) @@ ("l" :> 108) @@ ("r" :> 114) @@ ("s" :> 115) @@ ("t" :> 116) @@
    ("u" :> 117) @@ ("x" :> 120) @@ ("z" :> 122) @@ ("{" :> 123) @@ ("}" :> 125) @@
    (NUL :> 0)

DigitChars == {"0", "1", "2", "3", "4", "5", "6", "7", "8", "9"}

isdigit(c) == c \in DigitChars

isspace(c) == c \in {" ", "\t", "\n"}

DigitVal(c) == Ascii[c] - Ascii["0"]

DigitChar(d) == CHOOSE c \in DigitChars : DigitVal(c) = d

\* std::string's operator<, the order of std::map<std::string, SJR>
RECURSIVE StrLess(_, _)
StrLess(a, b) ==
    IF b = <<>> THEN FALSE
    ELSE IF a = <<>> THEN TRUE
    ELSE IF Ascii[Head(a)] # Ascii[Head(b)] THEN Ascii[Head(a)] < Ascii[Head(b)]
    ELSE StrLess(Tail(a), Tail(b))

----------------------------------------------------------------------------
(* int: 32 bits, two's complement.  Signed overflow is undefined in C++;   *)
(* the value kept here is the wrapped one.                                 *)

IntMax == 2147483647
IntMin == -IntMax - 1

IntAdd(a, b) ==
    IF a >= 0 /\ b >= 0 /\ a > IntMax - b THEN (a + IntMin) + (b + IntMin)
    ELSE IF a < 0 /\ b < 0 /\ a < IntMin - b THEN (a - IntMin) + (b - IntMin)
    ELSE a + b

IntDouble(a) == IntAdd(a, a)

IntMul10(a) == IntAdd(IntDouble(IntDouble(IntDouble(a))), IntDouble(a))

IntNeg(a) == IF a = IntMin THEN IntMin ELSE -a

RECURSIVE NatDigits(_)
NatDigits(n) ==
    IF n < 10 THEN <<DigitChar(n)>>
    ELSE Append(NatDigits(n \div 10), DigitChar(n % 10))

\* std::to_string(int)
ToStringInt(n) ==
    IF n = IntMin THEN <<"-", "2", "1", "4", "7", "4", "8", "3", "6", "4", "8">>
    ELSE IF n < 0 THEN <<"-">> \o NatDigits(-n)
    ELSE NatDigits(n)

\* std::stoi: leading white space, an optional sign, then digits; what follows
\* the digits is ignored.  No digit: std::invalid_argument.  Out of int's
\* range: std::out_of_range.
RECURSIVE StoiDigits(_, _, _)
StoiDigits(s, acc, over) ==
    IF s = <<>> \/ ~isdigit(Head(s)) THEN [acc |-> acc, over |-> over]
    ELSE LET d == DigitVal(Head(s))
             big == acc > (IntMax - d) \div 10
         IN  StoiDigits(Tail(s), IF over \/ big THEN acc ELSE acc * 10 + d, over \/ big)

RECURSIVE StoiSkip(_)
StoiSkip(s) == IF s # <<>> /\ isspace(Head(s)) THEN StoiSkip(Tail(s)) ELSE s

\* a conversion that takes the whole text or nothing
stoiWholeText(s) ==
    LET r == StoiDigits(IF s # <<>> /\ Head(s) = "-" THEN Tail(s) ELSE s, 0, FALSE)
        whole == \E sg \in 0..1 :
                    /\ Len(s) > sg
                    /\ sg = 1 => s[1] = "-"
                    /\ \A i \in (sg + 1)..Len(s) : isdigit(s[i])
    IN  IF ~whole THEN [ok |-> FALSE, err |-> "invalid_argument", val |-> 0]
        ELSE IF r.over THEN [ok |-> FALSE, err |-> "out_of_range", val |-> 0]
        ELSE [ok |-> TRUE, err |-> "none", val |-> IF Head(s) = "-" THEN -r.acc ELSE r.acc]

stoi(s) ==
    LET t == StoiSkip(s)
        signed == t # <<>> /\ Head(t) \in {"+", "-"}
        u == IF signed THEN Tail(t) ELSE t
        r == StoiDigits(u, 0, FALSE)
    IN  IF u = <<>> \/ ~isdigit(Head(u)) THEN [ok |-> FALSE, err |-> "invalid_argument", val |-> 0]
        ELSE IF r.over THEN [ok |-> FALSE, err |-> "out_of_range", val |-> 0]
        ELSE [ok |-> TRUE, err |-> "none",
              val |-> IF signed /\ Head(t) = "-" THEN -r.acc ELSE r.acc]

----------------------------------------------------------------------------
(* float.  A value is a sign, an integer part and a fraction in millionths *)
(* (the six decimals std::to_string prints).  This is exact for the values *)
(* of the model, which have at most six significant digits.                *)

Million == 1000000

FloatOfInt(n) == [neg |-> n < 0, ip |-> IF n < 0 THEN -n ELSE n, fp |-> 0]

RECURSIVE Pow10(_)
Pow10(n) == IF n <= 0 THEN 1 ELSE 10 * Pow10(n - 1)

\* parseNumber's fraction loop: valueFloat *= pow(10, shift);
\* valueFloat += digit; valueFloat /= pow(10, shift)
FracStep(f, d, shift) ==
    [f EXCEPT !.fp = f.fp + (IF shift <= 6 THEN d * Pow10(6 - shift) ELSE 0)]

\* valueFloat *= pow(10, valueInt)
ScaleFloat(f, e) ==
    IF e <= 0 THEN f
    ELSE [neg |-> f.neg,
          ip |-> f.ip * Pow10(e) + (f.fp * Pow10(e)) \div Million,
          fp |-> (f.fp * Pow10(e)) % Million]

Pad6(n) == [i \in 1..6 |-> DigitChar((n \div Pow10(6 - i)) % 10)]

\* std::to_string(float) and std::to_string(double): "%f"
ToStringFloat(f) ==
    (IF f.neg THEN <<"-">> ELSE <<>>) \o NatDigits(f.ip) \o <<".">> \o Pad6(f.fp)

\* std::stof on the text std::to_string wrote: [sign] digits [. digits]
RECURSIVE FracOf(_, _)
FracOf(s, shift) ==
    IF s = <<>> \/ ~isdigit(Head(s)) \/ shift > 6 THEN 0
    ELSE DigitVal(Head(s)) * Pow10(6 - shift) + FracOf(Tail(s), shift + 1)

RECURSIVE DropDigits(_)
DropDigits(s) == IF s # <<>> /\ isdigit(Head(s)) THEN DropDigits(Tail(s)) ELSE s

stof(s) ==
    LET t == StoiSkip(s)
        signed == t # <<>> /\ Head(t) \in {"+", "-"}
        u == IF signed THEN Tail(t) ELSE t
        r == StoiDigits(u, 0, FALSE)
        rest == DropDigits(u)
        frac == IF rest # <<>> /\ Head(rest) = "." THEN FracOf(Tail(rest), 1) ELSE 0
    IN  IF u = <<>> \/ ~(isdigit(Head(u)) \/ Head(u) = ".") THEN [ok |-> FALSE, val |-> FloatOfInt(0)]
        ELSE [ok |-> TRUE,
              val |-> [neg |-> signed /\ Head(t) = "-", ip |-> r.acc, fp |-> frac]]

RECURSIVE StripZeros(_)
StripZeros(s) ==
    IF s # <<>> /\ s[Len(s)] = "0" THEN StripZeros(SubSeq(s, 1, Len(s) - 1)) ELSE s

NumDigits(n) == Len(NatDigits(n))

\* "%g" switches to exponent notation below 1e-4 and from 1e6 on
UsesExponent(f) ==
    \/ f.ip >= Million
    \/ f.ip = 0 /\ f.fp # 0 /\ f.fp < 100

\* operator<<(std::ostream&, float): "%g" with six significant digits, no
\* trailing zeros, no decimal point when nothing follows it
FormatFloat(f) ==
    IF UsesExponent(f) THEN <<"<exponent notation>">>
    ELSE LET unit == IF f.ip = 0 THEN 1 ELSE Pow10(NumDigits(f.ip))
             r == ((f.fp + unit \div 2) \div unit) * unit
             ip2 == IF r >= Million THEN f.ip + 1 ELSE f.ip
             fp2 == IF r >= Million THEN 0 ELSE r
             frac == StripZeros(Pad6(fp2))
         IN  (IF f.neg THEN <<"-">> ELSE <<>>) \o NatDigits(ip2)
             \o (IF frac = <<>> THEN <<>> ELSE <<".">> \o frac)

----------------------------------------------------------------------------
(* The node *)

\* a default-constructed SJR
DefaultNode == [type |-> "OBJECT", value |-> <<>>, mapJson |-> <<>>, vectorJson |-> <<>>]

\* std::map<std::string, SJR>: the entries in ascending key order
MapFind(map, key) ==
    IF \E i \in 1..Len(map) : map[i].key = key
    THEN CHOOSE i \in 1..Len(map) : map[i].key = key
    ELSE 0

MapKeys(map) == {map[i].key : i \in 1..Len(map)}

\* a container that keeps its keys in the order they arrive
MapSlotAtEnd(map, key) == Len(map) + 1

\* where std::map puts a new key
MapSlot(map, key) == Cardinality({i \in 1..Len(map) : StrLess(map[i].key, key)}) + 1

\* mapJson[key] = node
MapAssign(map, key, node) ==
    LET i == MapFind(map, key)
        at == MapSlot(map, key)
    IN  IF i # 0 THEN [map EXCEPT ![i].node = node]
        ELSE SubSeq(map, 1, at - 1) \o <<[key |-> key, node |-> node]>>
             \o SubSeq(map, at, Len(map))

\* std::vector::resize
Resize(vec, n) ==
    [i \in 1..n |-> IF i <= Len(vec) THEN vec[i] ELSE DefaultNode]

----------------------------------------------------------------------------
(* The parser.  A machine is the text, the bytes that follow its NUL in    *)
(* memory (tail), the cursor, and the stack of parse() calls in progress.  *)
(* A frame is one parse() call on one node.                                *)

\* *file at cursor p.  Past the terminating NUL the code reads whatever the
\* memory holds; past the modelled memory the model stops.
Mem(m, p) ==
    IF p <= Len(m.text) THEN m.text[p]
    ELSE IF p = Len(m.text) + 1 THEN NUL
    ELSE IF p <= Len(m.text) + 1 + Len(m.tail) THEN m.tail[p - Len(m.text) - 1]
    ELSE OOB

RECURSIVE skipWhiteSpace(_, _)
skipWhiteSpace(m, p) == IF isspace(Mem(m, p)) THEN skipWhiteSpace(m, p + 1) ELSE p

NewFrame(node) ==
    [node |-> node, pc |-> "parse", nodeName |-> <<>>, signNegative |-> FALSE,
     valueInt |-> 0, valueFloat |-> FloatOfInt(0), shift |-> 1,
     retOk |-> FALSE, retNode |-> DefaultNode]

StartParse(text, tail, node) ==
    [text |-> text, tail |-> tail, pos |-> 1, stack |-> <<NewFrame(node)>>,
     status |-> "running", root |-> node]

Top(m) == m.stack[Len(m.stack)]

SetTop(m, f) == [m EXCEPT !.stack[Len(m.stack)] = f]

\* the parse() call on top returns ok with the cursor at p
Return(m, node, ok, p) ==
    LET n == Len(m.stack)
    IN  IF n = 1
        THEN [m EXCEPT !.stack = <<>>, !.pos = p, !.root = node,
                       !.status = IF ok THEN "ok" ELSE "fail"]
        ELSE [m EXCEPT !.stack = [i \in 1..(n - 1) |->
                                    IF i = n - 1
                                    THEN [m.stack[i] EXCEPT !.retOk = ok, !.retNode = node]
                                    ELSE m.stack[i]],
                       !.pos = p]

\* SJR newSJR; newSJR.parse(file), the caller resuming at pc `after`
Call(m, f, after, p) ==
    [m EXCEPT !.stack = Append([m.stack EXCEPT ![Len(m.stack)] = [f EXCEPT !.pc = after]],
                               NewFrame(DefaultNode)),
              !.pos = p]

Goto(m, f, pc, p) == [SetTop(m, [f EXCEPT !.pc = pc]) EXCEPT !.pos = p]

Matches(m, p, lit) == \A i \in 1..Len(lit) : Mem(m, p + i - 1) = lit[i]

\* parseObject from its test of the leading token on
ObjectOpen(m, f, p) ==
    IF Mem(m, p) = "{"
    THEN Goto(m, [f EXCEPT !.node.type = "OBJECT"], "objLoop", p + 1)
    ELSE Return(m, f.node, FALSE, p)

\* parse(): skipWhiteSpace, then parseString, parseBool, parseNumber,
\* parseArray and parseObject, each up to its test of the leading token
ParseDispatch(m) ==
    LET f == Top(m)
        p == skipWhiteSpace(m, m.pos)
        c == Mem(m, p)
        isTrue == Matches(m, p, <<"t", "r", "u", "e">>)
        isFalse == Matches(m, p, <<"f", "a", "l", "s", "e">>)
    IN  IF c = "\""
        THEN Goto(m, [f EXCEPT !.node.type = "STRING"], "strLoop", p + 1)
        ELSE IF isTrue \/ isFalse
        THEN Return(m, [f.node EXCEPT !.value = ToStringInt(IF isTrue THEN 1 ELSE 0),
                                      !.type = "BOOL"],
                    TRUE, p + (IF isTrue THEN 4 ELSE 5))
        ELSE IF c \in {"-", "+"} \/ isdigit(c)
        THEN Goto(m, [f EXCEPT !.signNegative = (c = "-"), !.valueInt = 0,
                               !.valueFloat = FloatOfInt(0)],
                  "numInt", IF c \in {"-", "+"} THEN p + 1 ELSE p)
        ELSE IF c = "["
        THEN Goto(m, [f EXCEPT !.node.type = "ARRAY"], "arrLoop", p + 1)
        ELSE ObjectOpen(m, f, p)

\* parseString: one turn of its loop
ParseStringLoop(m) ==
    LET f == Top(m)
        p == skipWhiteSpace(m, m.pos)
    IN  IF Mem(m, m.pos) = "\"" THEN Return(m, f.node, TRUE, m.pos + 1)
        ELSE IF Mem(m, p) = "\"" THEN Return(m, f.node, TRUE, p)
        ELSE Goto(m, [f EXCEPT !.node.value = Append(@, Mem(m, p))], "strLoop", p + 1)

SignedFloat(f) == [f.valueFloat EXCEPT !.neg = f.signNegative]

\* parseNumber: one turn of the integer loop, or what follows the loop
ParseNumberInt(m) ==
    LET f == Top(m)
        c == Mem(m, m.pos)
    IN  IF isdigit(c)
        THEN Goto(m, [f EXCEPT !.valueInt = IntAdd(IntMul10(@), DigitVal(c))],
                  "numInt", m.pos + 1)
        ELSE IF c = "."
        THEN Goto(m, [f EXCEPT !.node.type = "FLOAT",
                               !.valueFloat = FloatOfInt(f.valueInt), !.shift = 1],
                  "numFrac", m.pos + 1)
        ELSE IF c \in {"e", "E"}
        THEN Goto(m, [f EXCEPT !.node.type = "FLOAT",
                               !.valueFloat = FloatOfInt(f.valueInt), !.valueInt = 0],
                  "numExp", m.pos + 1)
        ELSE Return(m, [f.node EXCEPT !.type = "INT",
                                      !.value = ToStringInt(IF f.signNegative
                                                            THEN IntNeg(f.valueInt)
                                                            ELSE f.valueInt)],
                    TRUE, m.pos)

\* parseNumber: one turn of the fraction loop, or the return after it
ParseNumberFrac(m) ==
    LET f == Top(m)
        c == Mem(m, m.pos)
    IN  IF isdigit(c)
        THEN Goto(m, [f EXCEPT !.valueFloat = FracStep(@, DigitVal(c), f.shift),
                               !.shift = @ + 1],
                  "numFrac", m.pos + 1)
        ELSE Return(m, [f.node EXCEPT !.value = ToStringFloat(SignedFloat(f))], TRUE, m.pos)

\* the cursor after one turn of parseNumber's exponent loop: the loop body
\* holds no ++file
ExpAdvance(p) == p

\* parseNumber: one turn of the exponent loop, or the return after it
ParseNumberExp(m) ==
    LET f == Top(m)
        c == Mem(m, m.pos)
        scaled == [f EXCEPT !.valueFloat = ScaleFloat(@, f.valueInt)]
    IN  IF isdigit(c)
        THEN Goto(m, [f EXCEPT !.valueInt = IntAdd(IntMul10(@), DigitVal(c))],
                  "numExp", ExpAdvance(m.pos))
        ELSE Return(m, [f.node EXCEPT !.value = ToStringFloat(SignedFloat(scaled))],
                    TRUE, m.pos)

\* parseArray: the head of its loop, up to the parse of the next element
ParseArrayLoop(m) ==
    LET f == Top(m)
        p == skipWhiteSpace(m, m.pos)
    IN  IF Mem(m, m.pos) = "]" THEN Return(m, f.node, TRUE, m.pos + 1)
        ELSE IF Mem(m, p) = "]" THEN Return(m, f.node, TRUE, p + 1)
        ELSE Call(m, f, "arrAfter", p)

\* parseArray returned false: parse() goes on to parseObject
ArrayFailed(m, f, p) == Goto(m, f, "tryObject", p)

\* parseArray: after the parse of an element
ParseArrayAfter(m) ==
    LET f == Top(m)
        g == [f EXCEPT !.node.vectorJson = Append(@, f.retNode)]
        p == skipWhiteSpace(m, m.pos)
    IN  IF ~f.retOk THEN ArrayFailed(m, f, m.pos)
        ELSE IF Mem(m, p) = "]"
        THEN Return(m, [g.node EXCEPT !.type = "ARRAY"], TRUE, p + 1)
        ELSE IF Mem(m, p) # "," THEN ArrayFailed(m, g, p)
        ELSE Goto(m, g, "arrLoop", p + 1)

\* parse(): parseObject after parseArray returned false
ParseTryObject(m) == ObjectOpen(m, Top(m), m.pos)

\* parseObject: the end of a turn, from the skipWhiteSpace after the pair
ObjectSep(m, f, from) ==
    LET p == skipWhiteSpace(m, from)
    IN  IF Mem(m, p) = "}" THEN Return(m, f.node, TRUE, p + 1)
        ELSE IF Mem(m, p) # "," THEN Return(m, f.node, FALSE, p)
        ELSE Goto(m, f, "objLoop", p + 1)

\* parseObject: the head of its loop, up to the opening quote of a key
ParseObjectLoop(m) ==
    LET f == Top(m)
        p == skipWhiteSpace(m, m.pos)
    IN  IF Mem(m, m.pos) = "}" THEN Return(m, f.node, TRUE, m.pos + 1)
        ELSE IF Mem(m, p) = "}" THEN Return(m, f.node, TRUE, p + 1)
        ELSE IF Mem(m, p) = "\"" THEN Goto(m, [f EXCEPT !.nodeName = <<>>], "objKey", p + 1)
        ELSE ObjectSep(m, f, p)

\* what parseObject returns when the key is not followed by ':'
NoColonResult == TRUE

\* what parseObject returns when the value of a pair does not parse
BadValueResult == TRUE

\* parseObject: from the closing quote of a key (at q) to the parse of the value
ObjectKeyEnd(m, f, q) ==
    LET p == skipWhiteSpace(m, q + 1)
    IN  IF Mem(m, p) # ":" THEN Return(m, f.node, NoColonResult, p)
        ELSE Call(m, f, "objAfter", skipWhiteSpace(m, p + 1))

\* parseObject: one turn of the key loop
ParseObjectKey(m) ==
    LET f == Top(m)
        p == skipWhiteSpace(m, m.pos)
    IN  IF Mem(m, m.pos) = "\"" THEN ObjectKeyEnd(m, f, m.pos)
        ELSE IF Mem(m, p) = "\"" THEN ObjectKeyEnd(m, f, p)
        ELSE Goto(m, [f EXCEPT !.nodeName = Append(@, Mem(m, p))], "objKey", p + 1)

\* parseObject: after the parse of a value
ParseObjectAfter(m) ==
    LET f == Top(m)
        g == [f EXCEPT !.node.type = "OBJECT",
                       !.node.mapJson = MapAssign(@, f.nodeName, f.retNode)]
    IN  IF ~f.retOk THEN Return(m, f.node, BadValueResult, m.pos)
        ELSE ObjectSep(m, g, m.pos)

\* one step of the parse, by the place the call on top is at
ParseStepAt(m, pc) ==
    CASE pc = "parse" -> ParseDispatch(m)
      [] pc = "strLoop" -> ParseStringLoop(m)
      [] pc = "numInt" -> ParseNumberInt(m)
      [] pc = "numFrac" -> ParseNumberFrac(m)
      [] pc = "numExp" -> ParseNumberExp(m)
      [] pc = "arrLoop" -> ParseArrayLoop(m)
      [] pc = "arrAfter" -> ParseArrayAfter(m)
      [] pc = "tryObject" -> ParseTryObject(m)
      [] pc = "objLoop" -> ParseObjectLoop(m)
      [] pc = "objKey" -> ParseObjectKey(m)
      [] pc = "objAfter" -> ParseObjectAfter(m)

\* the bytes the memory may hold after the text's NUL
TailChars == {NUL, "\"", "a"}

Tails == [1..MaxOverrun -> TailChars]

\* the step from m leaves the text and its NUL: from here on the bytes read
\* are those that happen to follow the buffer
LeavesBuffer(m) ==
    m.tail = <<>> /\ ParseStepAt(m, Top(m).pc).pos > Len(m.text) + 1

\* one step of the parse.  `tail` is what follows the buffer in memory, seen
\* from the step that leaves the buffer on; a step that takes the cursor out
\* of the modelled memory ends the model's run.
ParseStep(m, tail) ==
    LET n == ParseStepAt(m, Top(m).pc)
        t == IF n.tail = <<>> /\ n.pos > Len(n.text) + 1 THEN tail ELSE n.tail
    IN  [n EXCEPT !.tail = t,
                  !.status = IF n.pos > Len(n.text) + 1 + Len(t) THEN "overrun" ELSE @]

\* load(): parse() run to its return.  Out of fuel: the call has not returned.
RECURSIVE RunParse(_, _, _)
RunParse(m, tail, fuel) ==
    IF m.status # "running" THEN m
    ELSE IF fuel = 0 THEN [m EXCEPT !.status = "hang"]
    ELSE RunParse(ParseStep(m, tail), tail, fuel - 1)

\* the outcomes of load(text) on node: one, unless the parse leaves the buffer
LoadOutcomes(text, node) ==
    LET m == RunParse(StartParse(text, <<>>, node), <<>>, Fuel)
    IN  IF m.status = "overrun"
        THEN {RunParse(StartParse(text, <<>>, node), tail, Fuel) : tail \in Tails}
        ELSE {m}

----------------------------------------------------------------------------
(* The writer.  A save is the node it was called on, the stack of write()  *)
(* calls in progress, the text written to its own file so far, and the     *)
(* value it last read from tabsCount.  tabsCount itself is writeObject's   *)
(* function-static: one counter for every save of the process.             *)

Text(out) == [ok |-> TRUE, text |-> out]

Thrown == [ok |-> FALSE, text |-> <<>>]

\* writeBool: boolalpha of static_cast<bool>(std::stoi(value))
writeBool(node) ==
    LET r == stoi(node.value)
    IN  IF ~r.ok THEN Thrown
        ELSE Text(IF r.val # 0 THEN <<"t", "r", "u", "e">> ELSE <<"f", "a", "l", "s", "e">>)

\* writeInt: file << std::stoi(value)
writeInt(node) ==
    LET r == stoi(node.value) IN IF ~r.ok THEN Thrown ELSE Text(ToStringInt(r.val))

\* writeFloat: file << std::stof(value)
writeFloat(node) ==
    LET r == stof(node.value) IN IF ~r.ok THEN Thrown ELSE Text(FormatFloat(r.val))

\* writeString
writeString(node) == Text(<<"\"">> \o node.value \o <<"\"">>)

IsScalar(node) == node.type \in {"BOOL", "INT", "FLOAT", "STRING"}

writeScalar(node) ==
    CASE node.type = "BOOL" -> writeBool(node)
      [] node.type = "INT" -> writeInt(node)
      [] node.type = "FLOAT" -> writeFloat(node)
      [] node.type = "STRING" -> writeString(node)

\* writeTabs(file, count): count converts to size_t, so a negative count
\* asks for some 2^64 tabs
Tabs(count) == [i \in 1..count |-> "\t"]

WFrame(node) == [node |-> node, pc |-> "write", i |-> 1]

StartSave(node) ==
    [node |-> node, stack |-> <<WFrame(node)>>, out |-> <<>>, reg |-> 0,
     status |-> "running"]

WTop(s) == s.stack[Len(s.stack)]

\* the write() call on top returns
WReturn(s, out) ==
    [s EXCEPT !.stack = SubSeq(s.stack, 1, Len(s.stack) - 1),
              !.out = out,
              !.status = IF Len(s.stack) = 1 THEN "done" ELSE "running"]

WGoto(s, f, pc, out) ==
    [s EXCEPT !.stack[Len(s.stack)] = [f EXCEPT !.pc = pc], !.out = out]

\* it->write(file), the caller resuming at pc `after`
WCall(s, f, after, node, out) ==
    [s EXCEPT !.stack = Append([s.stack EXCEPT ![Len(s.stack)] = [f EXCEPT !.pc = after]],
                               WFrame(node)),
              !.out = out]

\* writeTabs with the counter's current value, then `then`
WTabs(s, f, pc, before, tc, then) ==
    IF tc < 0 THEN [s EXCEPT !.out = s.out \o before, !.status = "flood"]
    ELSE WGoto(s, f, pc, s.out \o before \o Tabs(tc) \o then)

\* what separates two pairs of an object, before the tabs of the next line
PairSeparator == <<",", " ", "\n">>

\* the label writeObject writes before the braces of a node with a value
Label(node) ==
    IF node.value # <<>> THEN <<"\"">> \o node.value \o <<"\"", ":", " ">> ELSE <<>>

\* what writeObject writes before its opening brace
ObjectLead(node) == Label(node) \o <<"\n">>

\* one step of a save; tc is tabsCount
WriteStepAt(s, tc, pc) ==
    LET f == WTop(s)
        n == f.node
        same == [s |-> s, tc |-> tc]
        to(x) == [s |-> x, tc |-> tc]
    IN  CASE pc = "write" ->
               IF IsScalar(n)
               THEN LET r == writeScalar(n)
                    IN  IF r.ok THEN to(WReturn(s, s.out \o r.text))
                        ELSE to([s EXCEPT !.status = "threw"])
               ELSE IF n.type = "ARRAY"
               THEN to(WGoto(s, f, "arrLoop", s.out \o <<"[">>))
               ELSE to(WTabs(s, f, "incLoad", ObjectLead(n), tc, <<"{", "\n">>))
          [] pc = "arrLoop" ->
               IF f.i > Len(n.vectorJson) THEN to(WReturn(s, s.out \o <<"]">>))
               ELSE to(WCall(s, f, "arrAfter", n.vectorJson[f.i], s.out))
          [] pc = "arrAfter" ->
               to(WGoto(s, [f EXCEPT !.i = @ + 1], "arrLoop",
                        IF f.i # Len(n.vectorJson) THEN s.out \o <<",", " ">> ELSE s.out))
          [] pc = "incLoad" -> to(WGoto([s EXCEPT !.reg = tc], f, "incStore", s.out))
          [] pc = "incStore" -> [s |-> WGoto(s, f, "objTabs", s.out), tc |-> IntAdd(s.reg, 1)]
          [] pc = "objTabs" -> to(WTabs(s, f, "objLoop", <<>>, tc, <<>>))
          [] pc = "objLoop" ->
               IF f.i > Len(n.mapJson) THEN to(WGoto(s, f, "decLoad", s.out))
               ELSE to(WCall(s, f, "objAfter", n.mapJson[f.i].node,
                             s.out \o <<"\"">> \o n.mapJson[f.i].key \o <<"\"", ":", " ">>))
          [] pc = "objAfter" ->
               IF f.i # Len(n.mapJson)
               THEN to(WTabs(s, [f EXCEPT !.i = @ + 1], "objLoop", PairSeparator, tc, <<>>))
               ELSE to(WGoto(s, [f EXCEPT !.i = @ + 1], "objLoop", s.out))
          [] pc = "decLoad" -> to(WGoto([s EXCEPT !.reg = tc], f, "decStore", s.out))
          [] pc = "decStore" -> [s |-> WGoto(s, f, "objTail", s.out), tc |-> IntAdd(s.reg, -1)]
          [] pc = "objTail" ->
               LET t == WTabs(s, f, "objTail", <<"\n">>, tc, <<"}">>)
               IN  to(IF t.status = "flood" THEN t ELSE WReturn(s, t.out))

WriteStep(s, tc) == WriteStepAt(s, tc, WTop(s).pc)

\* save(): write() run to its return, alone
RECURSIVE RunSave(_, _, _)
RunSave(s, tc, fuel) ==
    IF s.status # "running" THEN [s |-> s, tc |-> tc]
    ELSE IF fuel = 0 THEN [s |-> [s EXCEPT !.status = "hang"], tc |-> tc]
    ELSE LET r == WriteStep(s, tc) IN RunSave(r.s, r.tc, fuel - 1)

\* the text save writes for node when no other save runs
SavedAlone(node) == RunSave(StartSave(node), 0, Fuel).s.out

----------------------------------------------------------------------------
(* SpecParse: load() on a default node, step by step, for every input of   *)
(* at most MaxLen tokens.                                                  *)

Tokens ==
    { <<"\"">>, <<"a">>, <<"1">>, <<".">>, <<"e">>, <<"-">>, <<"[">>, <<"]">>,
      <<"{">>, <<"}">>, <<":">>, <<",">>, <<" ">>, <<"\"", "a", "\"", ":">>,
      <<"t", "r", "u", "e">>, <<"f", "a", "l", "s", "e">> }

RECURSIVE Flatten(_)
Flatten(ts) == IF ts = <<>> THEN <<>> ELSE Head(ts) \o Flatten(Tail(ts))

\* the texts of at most n tokens
Inputs(n) == {Flatten(ts) : ts \in UNION {[1..k -> Tokens] : k \in 0..n}}

Idle == [text |-> <<>>, tail |-> <<>>, pos |-> 1, stack |-> <<>>, status |-> "idle",
         root |-> DefaultNode]

NoLast == [op |-> "none"]

InitParse ==
    /\ pm \in {StartParse(t, <<>>, DefaultNode) : t \in Inputs(MaxLen)}
    /\ doc = DefaultNode
    /\ cur = <<>>
    /\ opsLeft = 0
    /\ last = NoLast
    /\ loaded = FALSE
    /\ savers = <<>>
    /\ tabsCount = 0

\* the call on top of the stack is at pc
At(pc) == pm.status = "running" /\ Top(pm).pc = pc

TakeParseStep ==
    /\ \E tail \in (IF LeavesBuffer(pm) THEN Tails ELSE {<<>>}) :
           pm' = ParseStep(pm, tail)
    /\ UNCHANGED <<doc, cur, opsLeft, last, loaded, savers, tabsCount>>

Parse ==
    /\ At("parse")
    /\ TakeParseStep

ParseString ==
    /\ At("strLoop")
    /\ TakeParseStep

ParseNumber ==
    /\ At("numInt")
    /\ TakeParseStep

ParseFraction ==
    /\ At("numFrac")
    /\ TakeParseStep

ParseExponent ==
    /\ At("numExp")
    /\ TakeParseStep

ParseArray ==
    /\ At("arrLoop")
    /\ TakeParseStep

ParseArrayElement ==
    /\ At("arrAfter")
    /\ TakeParseStep

ParseObjectAfterArray ==
    /\ At("tryObject")
    /\ TakeParseStep

ParseObject ==
    /\ At("objLoop")
    /\ TakeParseStep

ParseKey ==
    /\ At("objKey")
    /\ TakeParseStep

ParsePair ==
    /\ At("objAfter")
    /\ TakeParseStep

NextParse ==
    \/ Parse
    \/ ParseString
    \/ ParseNumber
    \/ ParseFraction
    \/ ParseExponent
    \/ ParseArray
    \/ ParseArrayElement
    \/ ParseObjectAfterArray
    \/ ParseObject
    \/ ParseKey
    \/ ParsePair

SpecParse == InitParse /\ [][NextParse]_vars

----------------------------------------------------------------------------
(* The node's public operations *)

\* setValue<bool>
setValueBool(node, b) ==
    [node EXCEPT !.type = "BOOL", !.value = ToStringInt(IF b THEN 1 ELSE 0)]

\* setValue<int>
setValueInt(node, v) == [node EXCEPT !.type = "INT", !.value = ToStringInt(v)]

\* setValue<float>
setValueFloat(node, f) == [node EXCEPT !.type = "FLOAT", !.value = ToStringFloat(f)]

\* setValue<std::string>
setValueString(node, str) == [node EXCEPT !.type = "STRING", !.value = str]

\* getValue<int>: std::stoi(value), whatever the node's kind
getValueInt(node) == stoi(node.value)

\* getValue<bool>: std::stoi(value) converted to bool
getValueBool(node) ==
    LET r == stoi(node.value) IN [r EXCEPT !.val = IF r.val # 0 THEN 1 ELSE 0]

getChildCount(node) == Len(node.mapJson)

getArraySize(node) == Len(node.vectorJson)

\* operator[](std::string_view): the receiver after the call
subscriptKey(node, key) ==
    IF MapFind(node.mapJson, key) # 0 THEN node
    ELSE [node EXCEPT !.mapJson = MapAssign(@, key, DefaultNode)]

\* the elements operator[](size_t) starts from when the receiver is no Array
CoercedElements(node, index) == Resize(node.vectorJson, index)

\* operator[](size_t): the receiver after the call
subscriptIndex(node, index) ==
    LET v == IF node.type # "ARRAY" THEN CoercedElements(node, index) ELSE node.vectorJson
    IN  [node EXCEPT !.type = "ARRAY",
                     !.vectorJson = IF index >= Len(v) THEN Resize(v, index + 1) ELSE v]

\* a reference into the tree: the keys and indices that lead to it from doc
KeySel(key) == [kind |-> "key", key |-> key, index |-> 0]

IndexSel(index) == [kind |-> "index", key |-> <<>>, index |-> index]

Child(node, sel) ==
    IF sel.kind = "key" THEN node.mapJson[MapFind(node.mapJson, sel.key)].node
    ELSE node.vectorJson[sel.index + 1]

RECURSIVE NodeAt(_, _)
NodeAt(node, path) ==
    IF path = <<>> THEN node ELSE NodeAt(Child(node, Head(path)), Tail(path))

RECURSIVE ReplaceAt(_, _, _)
ReplaceAt(node, path, new) ==
    IF path = <<>> THEN new
    ELSE LET sel == Head(path)
             sub == ReplaceAt(Child(node, sel), Tail(path), new)
         IN  IF sel.kind = "key"
             THEN [node EXCEPT !.mapJson[MapFind(node.mapJson, sel.key)].node = sub]
             ELSE [node EXCEPT !.vectorJson[sel.index + 1] = sub]

----------------------------------------------------------------------------
(* Spec: a caller working on one document through references it obtains   *)
(* with operator[], at most MaxOps mutating calls.                         *)

Bools == {TRUE}

IntValues == {-3}

\* 2.0 and -2.5
FloatValues ==
    { [neg |-> FALSE, ip |-> 2, fp |-> 0],
      [neg |-> TRUE, ip |-> 2, fp |-> 500000] }

StringValues == { <<"h", "i">>, <<"7", "x">> }

Keys == { <<"z">>, <<"a", "b">> }

ExampleText ==
    <<"{", "\"", "a", "\"", ":", " ", "1", ",", " ", "\"", "b", "\"", ":", " ",
      "2", ".", "5", ",", " ", "\"", "c", "\"", ":", " ", "t", "r", "u", "e", "}">>

\* the texts the caller loads: the example document and one with its keys out
\* of order into a fresh document, an empty object into any node
UnsortedText ==
    <<"{", "\"", "z", "\"", ":", "1", ",", "\"", "a", "b", "\"", ":", "\"", "x", "\"", "}">>

LoadTexts(root, path) ==
    IF root = DefaultNode /\ path = <<>>
    THEN {ExampleText, UnsortedText, <<"{", "}">>}
    ELSE {<<"{", "}">>}

Receiver == NodeAt(doc, cur)

Init ==
    /\ pm = Idle
    /\ doc = DefaultNode
    /\ cur = <<>>
    /\ opsLeft = MaxOps
    /\ last = NoLast
    /\ loaded = FALSE
    /\ savers = <<>>
    /\ tabsCount = 0

\* a call that changes the receiver to `new`
Mutate(new, op) ==
    /\ opsLeft > 0
    /\ doc' = ReplaceAt(doc, cur, new)
    /\ opsLeft' = opsLeft - 1
    /\ last' = op

\* the parser is at rest unless a load has just run
Rest == pm' = Idle

SetValueBool ==
    /\ \E b \in Bools : Mutate(setValueBool(Receiver, b), NoLast)
    /\ Rest
    /\ UNCHANGED <<cur, loaded, savers, tabsCount>>

SetValueInt ==
    /\ \E v \in IntValues : Mutate(setValueInt(Receiver, v), NoLast)
    /\ Rest
    /\ UNCHANGED <<cur, loaded, savers, tabsCount>>

SetValueFloat ==
    /\ \E f \in FloatValues : Mutate(setValueFloat(Receiver, f), NoLast)
    /\ Rest
    /\ UNCHANGED <<cur, loaded, savers, tabsCount>>

SetValueString ==
    /\ \E str \in StringValues : Mutate(setValueString(Receiver, str), NoLast)
    /\ Rest
    /\ UNCHANGED <<cur, loaded, savers, tabsCount>>

GetValueInt ==
    /\ last' = [op |-> "getValue<int>", result |-> getValueInt(Receiver)]
    /\ Rest
    /\ UNCHANGED <<doc, cur, opsLeft, loaded, savers, tabsCount>>

GetValueBool ==
    /\ last' = [op |-> "getValue<bool>", result |-> getValueBool(Receiver)]
    /\ Rest
    /\ UNCHANGED <<doc, cur, opsLeft, loaded, savers, tabsCount>>

SubscriptKey ==
    /\ Len(cur) < MaxDepth
    /\ \E key \in Keys :
          /\ Mutate(subscriptKey(Receiver, key), NoLast)
          /\ cur' = Append(cur, KeySel(key))
    /\ Rest
    /\ UNCHANGED <<loaded, savers, tabsCount>>

SubscriptIndex ==
    /\ Len(cur) < MaxDepth
    /\ \E index \in 0..MaxIndex :
          /\ Mutate(subscriptIndex(Receiver, index),
                    [op |-> "operator[](index)", index |-> index, before |-> Receiver])
          /\ cur' = Append(cur, IndexSel(index))
    /\ Rest
    /\ UNCHANGED <<loaded, savers, tabsCount>>

\* load on the receiver.  A load that throws leaves the receiver as the parse
\* left it; one that does not return ends the caller's run.
Load ==
    /\ \E text \in LoadTexts(doc, cur) :
          \E m \in LoadOutcomes(text, Receiver) :
             /\ pm' = m
             /\ Mutate(m.root, [op |-> "load", status |-> m.status])
    /\ loaded' = TRUE
    /\ UNCHANGED <<cur, savers, tabsCount>>

\* save on the receiver
Save ==
    /\ LET r == RunSave(StartSave(Receiver), tabsCount, Fuel)
       IN  /\ last' = [op |-> "save", node |-> Receiver, out |-> r.s.out,
                       status |-> r.s.status]
           /\ tabsCount' = r.tc
    /\ Rest
    /\ UNCHANGED <<doc, cur, opsLeft, loaded, savers>>

\* load of the text just saved, on a default node of its own
Reload ==
    /\ last.op = "save"
    /\ last.status = "done"
    /\ pm' \in LoadOutcomes(last.out, DefaultNode)
    /\ last' = [op |-> "reload", node |-> last.node, out |-> last.out]
    /\ UNCHANGED <<doc, cur, opsLeft, loaded, savers, tabsCount>>

\* the caller's expression ends; the next one starts from doc
Root ==
    /\ cur # <<>>
    /\ cur' = <<>>
    /\ last' = NoLast
    /\ Rest
    /\ UNCHANGED <<doc, opsLeft, loaded, savers, tabsCount>>

Next ==
    \/ SetValueBool
    \/ SetValueInt
    \/ SetValueFloat
    \/ SetValueString
    \/ GetValueInt
    \/ GetValueBool
    \/ SubscriptKey
    \/ SubscriptIndex
    \/ Load
    \/ Save
    \/ Reload
    \/ Root

Spec == Init /\ [][Next]_vars

----------------------------------------------------------------------------
(* SpecSave: two threads, each saving a tree of its own, their steps       *)
(* interleaved.  Each reads and writes tabsCount where writeObject does.   *)

Leaf == setValueInt(DefaultNode, -3)

\* doc["z"].setValue(-3)
FlatTree == ReplaceAt(subscriptKey(DefaultNode, <<"z">>), <<KeySel(<<"z">>)>>, Leaf)

\* doc["z"]["z"].setValue(-3)
NestedTree == ReplaceAt(subscriptKey(DefaultNode, <<"z">>), <<KeySel(<<"z">>)>>, FlatTree)

\* doc[0]["z"].setValue(-3)
ArrayTree == ReplaceAt(subscriptIndex(DefaultNode, 0), <<IndexSel(0)>>, FlatTree)

SaveTrees == {FlatTree, NestedTree, ArrayTree}

Threads == {1, 2}

InitSave ==
    /\ savers \in [Threads -> {StartSave(t) : t \in SaveTrees}]
    /\ tabsCount = 0
    /\ pm = Idle
    /\ doc = DefaultNode
    /\ cur = <<>>
    /\ opsLeft = 0
    /\ last = NoLast
    /\ loaded = FALSE

\* thread p's save takes its step at pc
SaveAt(pc) ==
    /\ \E p \in Threads :
          /\ savers[p].status = "running"
          /\ WTop(savers[p]).pc = pc
          /\ \E r \in {WriteStep(savers[p], tabsCount)} :
                /\ savers' = [savers EXCEPT ![p] = r.s]
                /\ tabsCount' = r.tc
    /\ UNCHANGED <<pm, doc, cur, opsLeft, last, loaded>>

Write ==
    /\ SaveAt("write")

WriteArrayElement ==
    /\ SaveAt("arrLoop")

WriteArraySeparator ==
    /\ SaveAt("arrAfter")

ReadTabsCountToIncrement ==
    /\ SaveAt("incLoad")

StoreIncrementedTabsCount ==
    /\ SaveAt("incStore")

WriteFirstTabs ==
    /\ SaveAt("objTabs")

WritePair ==
    /\ SaveAt("objLoop")

WritePairSeparator ==
    /\ SaveAt("objAfter")

ReadTabsCountToDecrement ==
    /\ SaveAt("decLoad")

StoreDecrementedTabsCount ==
    /\ SaveAt("decStore")

WriteClosingBrace ==
    /\ SaveAt("objTail")

NextSave ==
    \/ Write
    \/ WriteArrayElement
    \/ WriteArraySeparator
    \/ ReadTabsCountToIncrement
    \/ StoreIncrementedTabsCount
    \/ WriteFirstTabs
    \/ WritePair
    \/ WritePairSeparator
    \/ ReadTabsCountToDecrement
    \/ StoreDecrementedTabsCount
    \/ WriteClosingBrace

SpecSave == InitSave /\ [][NextSave]_vars

----------------------------------------------------------------------------
(* Properties of the parser, under SpecParse *)

LoadReturned == pm.status = "ok"

\* the call on top of the stack has just been told that its nested parse failed
NestedFailed == pm.status = "running" /\ Top(pm).pc \in {"arrAfter", "objAfter"} /\ ~Top(pm).retOk

\* the call that was on top has returned true to its caller (or to load)
ReturnedTrue(m, n) ==
    /\ Len(n.stack) = Len(m.stack) - 1
    /\ IF n.stack = <<>> THEN n.status = "ok" ELSE Top(n).retOk

\* C2: when the value of an object pair or an element of an array does not
\* parse, parseObject/parseArray do not return true: the failure reaches the
\* caller, and load does not return normally.
C2_NestedFailurePropagates ==
    [][NestedFailed => ~ReturnedTrue(pm, pm')]_vars

\* the first character of the text that is not white space
LeadChar(text) ==
    LET m == StartParse(text, <<>>, DefaultNode) IN Mem(m, skipWhiteSpace(m, 1))

RestIsBlank(m) == \A i \in m.pos..Len(m.text) : isspace(m.text[i])

\* the text holds a key's closing quote that is followed by neither ':' nor
\* white space: an object pair cut short after its key
KeyWithoutColon(text) ==
    /\ LeadChar(text) = "{"
    /\ \E i, j \in 1..Len(text) :
          /\ i < j
          /\ text[i] = "\"" /\ text[j] = "\""
          /\ \A k \in 1..(i - 1) : text[k] \in {"{", " "}
          /\ \A k \in (i + 1)..(j - 1) : text[k] # "\""
          /\ \A k \in (j + 1)..Len(text) : text[k] = " "

\* C3: load returns normally only if the parse consumed one complete value:
\* nothing but white space is left after it, and the value was not cut short
\* after an object key.
C3_LoadConsumesCompleteValue ==
    LoadReturned => RestIsBlank(pm) /\ ~KeyWithoutColon(pm.text)

\* the loops of the parser that consume characters
LoopPcs == {"strLoop", "numInt", "numFrac", "numExp", "objKey"}

\* C7: every turn of a parser loop that consumes a character advances the
\* cursor (so that the parse of a finite input ends); in particular the
\* exponent loop moves past the exponent's digits.
C7_LoopTurnAdvancesCursor ==
    [][(/\ pm.status = "running" /\ pm'.status = "running"
        /\ Len(pm'.stack) = Len(pm.stack)
        /\ Top(pm).pc \in LoopPcs /\ Top(pm').pc = Top(pm).pc)
       => pm'.pos > pm.pos]_vars

\* the kinds the leading token of a text selects
KindsOfLead(c) ==
    IF c = "\"" THEN {"STRING"}
    ELSE IF c \in {"t", "f"} THEN {"BOOL"}
    ELSE IF c \in {"-", "+"} \/ isdigit(c) THEN {"INT", "FLOAT"}
    ELSE IF c = "[" THEN {"ARRAY"}
    ELSE IF c = "{" THEN {"OBJECT"}
    ELSE {}

\* C9: the parser commits to the alternative its leading token selects: when
\* that alternative fails the parse fails, so a node that load returns has
\* the kind of its leading token.
C9_CommitsToLeadingToken ==
    LoadReturned => pm.root.type \in KindsOfLead(LeadChar(pm.text))

\* C10: the cursor stays between the start of the text and its terminator.
C10_CursorInBounds == pm.pos \in 1..(Len(pm.text) + 1)

----------------------------------------------------------------------------
(* Properties of the writer, under SpecSave *)

\* C8: the tabs a save writes depend on the tree alone: whatever the
\* interleaving with another save, every save ends, and with the text it
\* writes when it runs alone.
C8_SaveIndependentOfOtherSaves ==
    \A p \in Threads :
        /\ savers[p].status \in {"running", "done"}
        /\ savers[p].status = "done" => savers[p].out = SavedAlone(savers[p].node)

----------------------------------------------------------------------------
(* Properties of the public operations, under Spec *)

\* the node operator[] was called on: the one the reference in cur is a child of
Indexed == NodeAt(doc, SubSeq(cur, 1, Len(cur) - 1))

RECURSIVE Equivalent(_, _)
\* same kind, same scalar, same keys, same element count, all the way down
Equivalent(a, b) ==
    /\ a.type = b.type
    /\ IsScalar(a) => a.value = b.value
    /\ a.type = "OBJECT" =>
          /\ MapKeys(a.mapJson) = MapKeys(b.mapJson)
          /\ \A k \in MapKeys(a.mapJson) :
                Equivalent(Child(a, KeySel(k)), Child(b, KeySel(k)))
    /\ a.type = "ARRAY" =>
          /\ Len(a.vectorJson) = Len(b.vectorJson)
          /\ \A i \in 1..Len(a.vectorJson) : Equivalent(a.vectorJson[i], b.vectorJson[i])

\* C1: a tree built with setValue and operator[] alone, saved and loaded
\* into a fresh node, comes back equivalent: the load succeeds, and kinds,
\* scalars, key sets and element counts are those of the tree saved.
C1_RoundTrip ==
    (last.op = "reload" /\ ~loaded) =>
        /\ pm.status = "ok"
        /\ Equivalent(last.node, pm.root)

\* C4: after operator[](index) on a node that was no Array, the node is an
\* Array of index+1 default nodes and nothing of its former scalar, children
\* or elements is left.
C4_IndexCoercionDiscardsContent ==
    (last.op = "operator[](index)" /\ last.before.type # "ARRAY") =>
        /\ Indexed.type = "ARRAY"
        /\ getArraySize(Indexed) = last.index + 1
        /\ \A i \in 1..Len(Indexed.vectorJson) : Indexed.vectorJson[i] = DefaultNode
        /\ Indexed.value = <<>>
        /\ Indexed.mapJson = <<>>
        /\ Receiver = Indexed.vectorJson[last.index + 1]

\* the keys of an object in ascending order of their bytes
KeysAscending(node) ==
    LET ks == MapKeys(node.mapJson)
    IN  CHOOSE q \in [1..Cardinality(ks) -> ks] :
            \A i, j \in 1..Cardinality(ks) : i < j => StrLess(q[i], q[j])

\* "key": value
PairText(node, k) ==
    <<"\"">> \o k \o <<"\"", ":", " ">> \o writeScalar(Child(node, KeySel(k))).text

RECURSIVE Joined(_, _, _)
Joined(node, ks, sep) ==
    IF ks = <<>> THEN <<>>
    ELSE IF Len(ks) = 1 THEN PairText(node, ks[1])
    ELSE PairText(node, ks[1]) \o sep \o Joined(node, Tail(ks), sep)

ScalarsOnly(node) ==
    \A i \in 1..Len(node.mapJson) : IsScalar(node.mapJson[i].node)

SavedObject ==
    last.op = "save" /\ last.node.type = "OBJECT" /\ ScalarsOnly(last.node)

\* the saved form of the example document
ExampleSaved ==
    <<"\n", "{", "\n",
      "\t", "\"", "a", "\"", ":", " ", "1", ",", " ", "\n",
      "\t", "\"", "b", "\"", ":", " ", "2", ".", "5", ",", " ", "\n",
      "\t", "\"", "c", "\"", ":", " ", "t", "r", "u", "e", "\n",
      "}">>

\* C5: save of an Object of scalars writes, in this order: the node's own
\* scalar text as a quoted label and ": " if it has one, a newline, "{" and
\* a newline, a tab, the pairs "key": value in ascending key order, two
\* pairs separated by a comma, a space, a newline and a tab, then a newline
\* and "}".  The example document loads to three children and is saved so.
C5_ObjectFormat ==
    /\ SavedObject =>
          /\ last.status = "done"
          /\ last.out = Label(last.node) \o <<"\n", "{", "\n", "\t">>
                        \o Joined(last.node, KeysAscending(last.node),
                                  <<",", " ", "\n", "\t">>)
                        \o <<"\n", "}">>
    /\ (last.op = "load" /\ pm.text = ExampleText) =>
          /\ last.status = "ok"
          /\ getChildCount(doc) = 3
          /\ SavedAlone(doc) = ExampleSaved

\* an object with several pairs, none labelled, has been saved
C5_SavedSeveralPairs ==
    /\ SavedObject
    /\ getChildCount(last.node) >= 2
    /\ last.node.value = <<>>
    /\ last.status = "done"

\* C5 as the specification words it: "{" first with nothing before it, the
\* pairs separated by a comma immediately followed by a newline
C5_FormatAsSpecified ==
    (SavedObject /\ last.node.value = <<>>) =>
        last.out = <<"{", "\n", "\t">>
                   \o Joined(last.node, KeysAscending(last.node), <<",", "\n", "\t">>)
                   \o <<"\n", "}">>

\* optional white space, an optional sign, then a digit
HasIntegerPrefix(s) ==
    \E k \in 0..Len(s) : \E sg \in 0..1 :
        /\ k + sg + 1 <= Len(s)
        /\ \A i \in 1..k : isspace(s[i])
        /\ sg = 1 => s[k + 1] \in {"+", "-"}
        /\ isdigit(s[k + sg + 1])

\* an optional minus sign and digits, nothing else
IsIntegerLiteral(s) ==
    \E sg \in 0..1 :
        /\ Len(s) > sg
        /\ sg = 1 => s[1] = "-"
        /\ \A i \in (sg + 1)..Len(s) : isdigit(s[i])

GotValue == last.op \in {"getValue<int>", "getValue<bool>"}

\* C6: getValue<int> and getValue<bool> throw std::invalid_argument exactly
\* when the stored text does not start, after white space, with an
\* optionally signed digit; on text that does (the text setValue<float>
\* stores, say) they return the value of that prefix, or throw
\* std::out_of_range.  Either way the tree is as it was.
C6_GetValueThrowsWithoutIntegerPrefix ==
    [][ GotValue' =>
          /\ doc' = doc
          /\ cur' = cur
          /\ IF HasIntegerPrefix(Receiver.value)
             THEN last'.result.ok \/ last'.result.err = "out_of_range"
             ELSE ~last'.result.ok /\ last'.result.err = "invalid_argument" ]_vars

\* getValue<int> after setValue<std::string>("hi") has thrown
C6_ThrewOnText ==
    /\ last.op = "getValue<int>"
    /\ Receiver.type = "STRING"
    /\ Receiver.value = <<"h", "i">>
    /\ ~last.result.ok

\* C6 as the specification words it: text that is no integer literal makes
\* getValue<int> and getValue<bool> fail
C6_ThrowsUnlessIntegerLiteral ==
    (GotValue /\ ~IsIntegerLiteral(Receiver.value)) => ~last.result.ok

====
